---- MODULE Spec2Model ----
(***************************************************************************)
(* A model of telehealth_compliance_checker.py: the TelehealthCrawler      *)
(* (crawl loop, URL normalisation, domain scoping, extraction) and the     *)
(* ComplianceAnalyzer (body-text, header and image scans under the         *)
(* page-type policy and the context exceptions).                           *)
(*                                                                         *)
(* Strings the program takes apart are modelled structurally:              *)
(*   - a URL is [scheme, host, path], path a sequence of segments, so      *)
(*     "" is <<>>, "/" is <<"">>, "/x/y" is <<"x","y">>;                   *)
(*   - an href is [kind, scheme, host, path, frag]: kind "abs" starts with *)
(*     http:// or https://, "proto" with //, "root" with a single /,       *)
(*     "rel" with none of them, and "bad" is an href on which urlparse     *)
(*     raises ValueError ("http://[bad"); frag says it carries a #part;    *)
(*     a URL or an href that ends with "?" has one more field, query, and  *)
(*     a URL that ends with a #part one more field, fragment;              *)
(*   - a text is a sequence of one-character strings.                      *)
(***************************************************************************)
EXTENDS Integers, Sequences, FiniteSets, TLC

VARIABLES
    \* TelehealthCrawler
    start_url, base_domain, max_pages, visited_urls, queue,
    page_content, forms, images, pdfs, page_types,
    \* the web site being crawled, and the position of crawl()
    site, pc,
    \* history of crawl(): the calls of _get_page_content, each with the
    \* status it returned and how the iteration ended; the URLs appended to
    \* the queue; the URLs popped from it
    fetchLog, enqLog, deqLog,
    \* ComplianceAnalyzer: the rule table, the findings, the scores, and the
    \* position of analyze_pages (the pages its loop has done)
    rules, findings, scores, analyzed, apc,
    \* the progress_callback argument of crawl() and analyze_pages() (TRUE
    \* when one is given) and the fractions it was called with, each as
    \* <<numerator, denominator>>
    progress_callback, progressLog,
    \* what each completed call of analyze_pages returned
    results,
    \* the local absolute_url of _extract_links
    absolute_url

crawlVars == <<start_url, base_domain, max_pages, visited_urls, queue,
               page_content, forms, images, pdfs, page_types, site, pc,
               fetchLog, enqLog, deqLog>>
analyzerVars == <<rules, findings, scores, analyzed, apc>>
callVars == <<progress_callback, progressLog, results, absolute_url>>
vars == <<start_url, base_domain, max_pages, visited_urls, queue,
          page_content, forms, images, pdfs, page_types, site, pc,
          fetchLog, enqLog, deqLog, rules, findings, scores, analyzed, apc,
          progress_callback, progressLog, results, absolute_url>>

(***************************************************************************)
(* Bounds                                                                  *)
(***************************************************************************)
\* max_pages is drawn from 1..MaxPagesCap
MaxPagesCap == 3

\* A page text given to the analyzer is made of at most MaxBlocks blocks
MaxBlocks == 4

\* The findings given to the score calculator hold at most MaxCount
\* findings of each severity in one category
MaxCount == 6

(***************************************************************************)
(* Generic helpers: Python dict, list and set operations                   *)
(***************************************************************************)
EmptyDict == << >>

Put(d, k, v) == [x \in (DOMAIN d) \cup {k} |-> IF x = k THEN v ELSE d[x]]

Range(s) == {s[i] : i \in 1..Len(s)}

\* self.<dict>[url] = data, done only "if data:" (a non-empty list)
PutIfAny(d, k, v) == IF v # << >> THEN Put(d, k, v) ELSE d

Count(s, x) == Cardinality({i \in 1..Len(s) : s[i] = x})

RECURSIVE Flatten(_)
Flatten(seqs) ==
    IF seqs = << >> THEN << >> ELSE Head(seqs) \o Flatten(Tail(seqs))

UpperCase ==
    <<"A", "B", "C", "D", "E", "F", "G", "H", "I", "J", "K", "L", "M",
      "N", "O", "P", "Q", "R", "S", "T", "U", "V", "W", "X", "Y", "Z">>

LowerCase ==
    <<"a", "b", "c", "d", "e", "f", "g", "h", "i", "j", "k", "l", "m",
      "n", "o", "p", "q", "r", "s", "t", "u", "v", "w", "x", "y", "z">>

LowerMap ==
    [c \in {UpperCase[i] : i \in 1..Len(UpperCase)} |->
        LowerCase[CHOOSE i \in 1..Len(UpperCase) : UpperCase[i] = c]]

\* One character of str.lower(), and of a match under re.IGNORECASE
Lower(c) == IF c \in DOMAIN LowerMap THEN LowerMap[c] ELSE c

\* str.lower()
LowerStr(str) == [i \in 1..Len(str) |-> Lower(str[i])]

\* str.startswith(prefix)
StartsWith(str, prefix) ==
    /\ Len(str) >= Len(prefix)
    /\ SubSeq(str, 1, Len(prefix)) = prefix

(***************************************************************************)
(* URLs and hrefs                                                          *)
(***************************************************************************)
Url(s, h, p) == [scheme |-> s, host |-> h, path |-> p]

Href(k, s, h, p, f) == [kind |-> k, scheme |-> s, host |-> h, path |-> p, frag |-> f]

\* The value standing for "the call raised" (ValueError, KeyError)
Raised == [raised |-> TRUE]

\* __init__: a start URL without http:// or https:// gets https:// in front
NormalizeSeed(raw) ==
    IF raw.scheme \notin {"http", "https"}
    THEN Url("https", raw.host, raw.path)
    ELSE raw

\* _extract_domain: urlparse(url).netloc
ExtractDomain(url) == url.host

IsSameDomainAlways(url, domain) == TRUE

\* _is_same_domain: urlparse(url).netloc == self.base_domain
IsSameDomain(url, domain) == ExtractDomain(url) = domain

\* urllib.parse.urljoin(base, rel) for a relative reference with no scheme,
\* no netloc and no leading slash: "" gives the base as it is, otherwise
\* the last segment of the base's path is replaced and the query and the
\* fragment of the base are left out
UrlJoinRelative(base, relpath) ==
    IF relpath = << >> THEN base
    ELSE IF base.path = << >> THEN Url(base.scheme, base.host, relpath)
    ELSE Url(base.scheme, base.host,
             SubSeq(base.path, 1, Len(base.path) - 1) \o relpath)

\* A URL or href that ends with "?", an empty query string, has a field
\* query; a URL that ends with a #part has a field fragment
HasEmptyQuery(u) == "query" \in DOMAIN u

HasFragment(url) == "fragment" \in DOMAIN url

EmptyQuery(url) ==
    [scheme |-> url.scheme, host |-> url.host, path |-> url.path, query |-> ""]

Fragment(url) ==
    [scheme |-> url.scheme, host |-> url.host, path |-> url.path,
     fragment |-> "sec"]

\* The f-strings of _normalize_url copy the href behind the scheme, or
\* behind the scheme and host, of the base: its "?" stays
KeepQuery(href, url) == IF HasEmptyQuery(href) THEN EmptyQuery(url) ELSE url

\* urllib.parse.urljoin(base, url) for a url with a scheme and a netloc:
\* returned as it is when its scheme is not the base's, and otherwise put
\* together again by urlunparse, which leaves an empty query out
UrlJoinAbsolute(base, url) ==
    IF url.scheme # base.scheme THEN url
    ELSE Url(url.scheme, url.host, url.path)

\* _normalize_url: url.split('#')[0] drops the fragment (the frag field is
\* not carried over), then the branches on the prefix of the href
NormalizeUrl(href, base_url) ==
    CASE href.kind = "bad"   -> Raised
      [] href.kind = "root"  ->
            KeepQuery(href, Url(base_url.scheme, base_url.host, href.path))
      [] href.kind = "rel"   -> UrlJoinRelative(base_url, href.path)
      [] href.kind = "proto" ->
            KeepQuery(href, Url(base_url.scheme, href.host, href.path))
      [] OTHER               ->
            UrlJoinAbsolute(base_url,
                KeepQuery(href, Url(href.scheme, href.host, href.path)))

\* href.lower().endswith('.pdf'): the raw href, fragment included
PdfSegments == {"doc.pdf"}

EndsWithPdf(href) ==
    /\ ~href.frag
    /\ href.path # << >>
    /\ href.path[Len(href.path)] \in PdfSegments

(***************************************************************************)
(* The web site: what the server of SeedHost returns at each path.  A page *)
(* is the parsed HTML: its anchors' hrefs in document order, its forms and *)
(* images, its <meta name="description"> ("absent", "ok", or "nocontent"   *)
(* when the tag has no content attribute), its title, visible text and     *)
(* headings, and the content indicators of _detect_page_type it matches.   *)
(***************************************************************************)
SeedHost == "a.com"

HrefRootX     == Href("root",  "", "", <<"x">>, FALSE)             \* /x
HrefRootXFrag == Href("root",  "", "", <<"x">>, TRUE)              \* /x#sec
HrefRootBlogY == Href("root",  "", "", <<"blog", "y">>, FALSE)     \* /blog/y
HrefRelY      == Href("rel",   "", "", <<"y">>, FALSE)             \* y
HrefFragOnly  == Href("rel",   "", "", << >>, TRUE)                \* #top
HrefRelPdf    == Href("rel",   "", "", <<"doc.pdf">>, FALSE)       \* doc.pdf
HrefProtoX    == Href("proto", "", "a.com", <<"x">>, FALSE)        \* //a.com/x
HrefProtoCdn  == Href("proto", "", "cdn.a.com", <<"f">>, FALSE)    \* //cdn.a.com/f
HrefAbsHome   == Href("abs", "https", "a.com", << >>, FALSE)       \* https://a.com
HrefAbsOther  == Href("abs", "https", "other.com", <<"page">>, FALSE) \* https://other.com/page
HrefBad       == Href("bad", "", "", << >>, FALSE)                 \* http://[bad

FormSample ==
    [action |-> << >>, method |-> <<"g", "e", "t">>,
     inputs |-> << [type |-> "text", name |-> <<"e", "m", "a", "i", "l">>,
                    id |-> << >>, placeholder |-> << >>, required |-> FALSE] >>]

ImageSample == [src |-> "i.png", alt |-> << >>, title |-> << >>]

Page(links, fs, imgs, meta, bh, ph) ==
    [links |-> links, forms |-> fs, images |-> imgs, meta |-> meta,
     title |-> <<"t">>, text |-> <<"b">>, headers |-> << <<"h">> >>,
     blog_hits |-> bh, product_hits |-> ph]

PageLeaf    == Page(<< >>, << >>, << >>, "absent", {}, {})
PageNav     == Page(<<HrefRootX, HrefRootBlogY>>, <<FormSample>>, << >>, "ok",
                    {}, {"price", "cart"})
PageNavRev  == Page(<<HrefRootBlogY, HrefRootXFrag, HrefRootX>>, << >>,
                    <<ImageSample>>, "ok", {"date", "byline"}, {"price"})
PageSelf    == Page(<<HrefFragOnly, HrefAbsOther, HrefProtoX, HrefRelY>>,
                    << >>, << >>, "absent", {}, {})
PageMixed   == Page(<<HrefAbsHome, HrefProtoCdn, HrefRelPdf, HrefRootBlogY>>,
                    << >>, << >>, "ok", {"date"}, {"price"})
PageNoMetaContent == Page(<<HrefRootX>>, <<FormSample>>, << >>, "nocontent",
                          {}, {})
PageBadHref == Page(<<HrefRootX, HrefBad, HrefRootBlogY>>, <<FormSample>>,
                    <<ImageSample>>, "ok", {}, {})

PageChoices == {PageLeaf, PageNav, PageNavRev, PageSelf, PageMixed,
                PageNoMetaContent, PageBadHref}

\* The body of an error response
ErrorPage == PageLeaf

SitePaths == {<< >>, <<"x">>, <<"blog", "y">>}

\* The start URLs tried: "a.com" (no scheme) and "http://a.com"
SeedInputs == {Url("", SeedHost, << >>), Url("http", SeedHost, << >>)}

OnSite(url, st) == url.host = SeedHost /\ url.path \in DOMAIN st

(***************************************************************************)
(* _detect_page_type                                                       *)
(***************************************************************************)
\* The characters of the strings the model's URLs are made of
Chars(str) ==
    CASE str = "http" -> <<"h", "t", "t", "p">>
      [] str = "https" -> <<"h", "t", "t", "p", "s">>
      [] str = "a.com" -> <<"a", ".", "c", "o", "m">>
      [] str = "cdn.a.com" -> <<"c", "d", "n", ".", "a", ".", "c", "o", "m">>
      [] str = "other.com" -> <<"o", "t", "h", "e", "r", ".", "c", "o", "m">>
      [] str = "x" -> <<"x">>
      [] str = "y" -> <<"y">>
      [] str = "privacy-policy" -> <<"p", "r", "i", "v", "a", "c", "y", "-", "p", "o", "l", "i", "c", "y">>
      [] str = "terms" -> <<"t", "e", "r", "m", "s">>
      [] str = "Blog" -> <<"B", "l", "o", "g">>
      [] str = "blog" -> <<"b", "l", "o", "g">>
      [] str = "articles" -> <<"a", "r", "t", "i", "c", "l", "e", "s">>
      [] str = "news" -> <<"n", "e", "w", "s">>
      [] str = "insights" -> <<"i", "n", "s", "i", "g", "h", "t", "s">>
      [] str = "resources" -> <<"r", "e", "s", "o", "u", "r", "c", "e", "s">>
      [] str = "learn" -> <<"l", "e", "a", "r", "n">>
      [] str = "education" -> <<"e", "d", "u", "c", "a", "t", "i", "o", "n">>
      [] str = "product" -> <<"p", "r", "o", "d", "u", "c", "t">>
      [] str = "shop" -> <<"s", "h", "o", "p">>
      [] str = "buy" -> <<"b", "u", "y">>
      [] str = "order" -> <<"o", "r", "d", "e", "r">>
      [] str = "pricing" -> <<"p", "r", "i", "c", "i", "n", "g">>
      [] str = "plans" -> <<"p", "l", "a", "n", "s">>
      [] str = "subscription" -> <<"s", "u", "b", "s", "c", "r", "i", "p", "t", "i", "o", "n">>
      [] OTHER -> <<"?">>

\* The URL as the string the crawler keys its dicts with
UrlString(url) ==
    Chars(url.scheme) \o <<":", "/", "/">> \o Chars(url.host)
    \o Flatten([i \in 1..Len(url.path) |-> <<"/">> \o Chars(url.path[i])])

BlogSegments == {"blog", "articles", "news", "insights", "resources",
                 "learn", "education"}

ProductSegments == {"product", "shop", "buy", "order", "pricing", "plans",
                    "subscription"}

\* re.search(r'/seg/', url): a segment of the path that is followed by
\* another one, or the host when a path follows it
UrlHasSegment(url, segs) ==
    LET names == {Chars(seg) : seg \in segs}
    IN  \/ \E i \in 1..(Len(url.path) - 1) : LowerStr(Chars(url.path[i])) \in names
        \/ LowerStr(Chars(url.host)) \in names /\ url.path # << >>

DetectPageTypeProductFirst(url, page) ==
    LET blog_score    == Cardinality(page.blog_hits)
        product_score == Cardinality(page.product_hits)
    IN  IF UrlHasSegment(url, ProductSegments) THEN "product"
        ELSE IF UrlHasSegment(url, BlogSegments) THEN "blog"
        ELSE IF blog_score > product_score /\ blog_score >= 2 THEN "blog"
        ELSE IF product_score > blog_score /\ product_score >= 2 THEN "product"
        ELSE "other"

\* _detect_page_type.  blog_hits and product_hits are the blog_indicators
\* and the product_indicators that re.search finds in str(soup)
DetectPageType(url, page) ==
    LET blog_score    == Cardinality(page.blog_hits)
        product_score == Cardinality(page.product_hits)
    IN  IF UrlHasSegment(url, BlogSegments) THEN "blog"
        ELSE IF UrlHasSegment(url, ProductSegments) THEN "product"
        ELSE IF blog_score > product_score /\ blog_score >= 2 THEN "blog"
        ELSE IF product_score > blog_score /\ product_score >= 2 THEN "product"
        ELSE "other"

(***************************************************************************)
(* _get_page_content: the responses a GET of url may produce.  None is the *)
(* except branch (network error, timeout).                                 *)
(***************************************************************************)
None == [kind |-> "none"]

Response(code, page) == [kind |-> "response", status_code |-> code, page |-> page]

GetPageContent(url, st) ==
    IF OnSite(url, st)
    THEN {Response(200, st[url.path]), Response(503, ErrorPage), None}
    ELSE {Response(404, ErrorPage), None}

\* The status of a response, 0 for None
StatusOf(resp) == IF resp = None THEN 0 ELSE resp.status_code

IsSuccessAnyResponse(resp) == resp # None

\* crawl: "if response and response.status_code == 200"
IsSuccess(resp) == resp # None /\ resp.status_code = 200

(***************************************************************************)
(* Extraction                                                              *)
(***************************************************************************)
IsRaised(v) == "raised" \in DOMAIN v

\* A call that returned value v
Returned(v) == [value |-> v]

\* _extract_pdfs: the hrefs ending in .pdf, normalised against the page's
\* URL; the call raises when the normalisation of one of them raises
ExtractPdfs(hrefs, url) ==
    LET pdfHrefs == SelectSeq(hrefs, EndsWithPdf)
    IN  IF \E i \in 1..Len(pdfHrefs) : IsRaised(NormalizeUrl(pdfHrefs[i], url))
        THEN Raised
        ELSE Returned([i \in 1..Len(pdfHrefs) |->
                          [url |-> NormalizeUrl(pdfHrefs[i], url)]])

\* _extract_links: every href normalised against the page's URL, kept when
\* it is on the crawl's domain and not yet visited (order and repetitions
\* kept); the call raises when the normalisation of an href raises
ExtractLinks(hrefs, base_url, visited, domain) ==
    IF \E i \in 1..Len(hrefs) : IsRaised(NormalizeUrl(hrefs[i], base_url))
    THEN Raised
    ELSE LET urls == [i \in 1..Len(hrefs) |-> NormalizeUrl(hrefs[i], base_url)]
             Keep(u) == IsSameDomain(u, domain) /\ u \notin visited
         IN  Returned(SelectSeq(urls, Keep))

RECURSIVE AppendLinksNoQueueCheck(_, _, _)
AppendLinksNoQueueCheck(q, links, visited) ==
    IF links = << >> THEN q
    ELSE AppendLinksNoQueueCheck(
             IF Head(links) \notin visited THEN Append(q, Head(links)) ELSE q,
             Tail(links), visited)

\* crawl: "for link in links: if link not in self.visited_urls and link
\* not in self.queue: self.queue.append(link)"
RECURSIVE AppendLinks(_, _, _)
AppendLinks(q, links, visited) ==
    IF links = << >> THEN q
    ELSE AppendLinks(
             IF Head(links) \notin visited /\ Head(links) \notin Range(q)
             THEN Append(q, Head(links)) ELSE q,
             Tail(links), visited)

(***************************************************************************)
(* crawl                                                                   *)
(***************************************************************************)
LoopGuardOffByOne(q, visited, cap) == q # << >> /\ Cardinality(visited) <= cap

\* "while self.queue and len(self.visited_urls) < self.max_pages"
LoopGuard(q, visited, cap) == q # << >> /\ Cardinality(visited) < cap

PopBack(q) == [item |-> q[Len(q)], rest |-> SubSeq(q, 1, Len(q) - 1)]

\* "current_url = self.queue.pop(0)"
PopFront(q) == [item |-> Head(q), rest |-> Tail(q)]

AlreadyVisitedNever(url, visited) == FALSE

\* "if current_url in self.visited_urls: continue"
AlreadyVisited(url, visited) == url \in visited

\* The record stored in self.page_content[current_url] (the raw html is
\* the page itself and is not stored again)
PageRecord(page, page_type) ==
    [title |-> page.title, text |-> page.text,
     meta_description |-> IF page.meta = "ok" THEN <<"d">> ELSE << >>,
     headers |-> page.headers, page_type |-> page_type]

Outcome(q, visited, content, fs, imgs, ps, types, how) ==
    [queue |-> q, visited_urls |-> visited, page_content |-> content,
     forms |-> fs, images |-> imgs, pdfs |-> ps, page_types |-> types,
     outcome |-> how]

\* One pass of the try block of crawl for current_url, the queue being
\* rest after the pop: the state it leaves and how it ended,
\*   "ok"      status 200, page stored, links queued, URL marked visited
\*   "status"  a response with another status
\*   "neterr"  _get_page_content returned None
\*   "exterr"  status 200 and an exception during extraction, caught by
\*             "except Exception" with what was stored before it kept
CrawlPage(current_url, resp, rest) ==
    IF ~IsSuccess(resp)
    THEN Outcome(rest, visited_urls, page_content, forms, images, pdfs,
                 page_types, IF resp = None THEN "neterr" ELSE "status")
    ELSE
    LET page      == resp.page
        page_type == DetectPageType(current_url, page)
        types1    == Put(page_types, current_url, page_type)
        content1  == Put(page_content, current_url, PageRecord(page, page_type))
        forms1    == PutIfAny(forms, current_url, page.forms)
        images1   == PutIfAny(images, current_url, page.images)
        pdfLinks  == ExtractPdfs(page.links, current_url)
        pdfs1     == PutIfAny(pdfs, current_url, pdfLinks.value)
        links     == ExtractLinks(page.links, current_url, visited_urls, base_domain)
    IN  IF page.meta = "nocontent"
        \* soup.find('meta', ...)['content'] raises KeyError
        THEN Outcome(rest, visited_urls, page_content, forms, images, pdfs,
                     types1, "exterr")
        ELSE IF IsRaised(pdfLinks)
        THEN Outcome(rest, visited_urls, content1, forms1, images1, pdfs,
                     types1, "exterr")
        ELSE IF IsRaised(links)
        THEN Outcome(rest, visited_urls, content1, forms1, images1, pdfs1,
                     types1, "exterr")
        ELSE Outcome(AppendLinks(rest, links.value, visited_urls),
                     visited_urls \cup {current_url},
                     content1, forms1, images1, pdfs1, types1, "ok")

(***************************************************************************)
(* Texts and regular expressions.  A pattern is a literal: a non-empty     *)
(* sequence of characters, matched with re.IGNORECASE.  Positions are      *)
(* Python's: the first character is at 0, a match is [start, end).         *)
(***************************************************************************)
ContextWindow == 100

SnippetWindow == 50

Max(a, b) == IF a >= b THEN a ELSE b

Min(a, b) == IF a <= b THEN a ELSE b

\* re.IGNORECASE: characters are compared after case folding
\* text[a:b]
Slice(text, a, b) == SubSeq(text, a + 1, b)

Whitespace == {" "}

\* str.strip()
RECURSIVE Strip(_)
Strip(str) ==
    IF str = << >> THEN str
    ELSE IF Head(str) \in Whitespace THEN Strip(Tail(str))
    ELSE IF str[Len(str)] \in Whitespace THEN Strip(SubSeq(str, 1, Len(str) - 1))
    ELSE str

\* The pattern matches the text at position start
MatchesAt(pattern, text, start) ==
    /\ start + Len(pattern) <= Len(text)
    /\ \A j \in 1..Len(pattern) : Lower(text[start + j]) = Lower(pattern[j])

\* re.finditer(pattern, text, re.IGNORECASE): the starts of the matches,
\* found left to right, each search resuming at the end of the last match
RECURSIVE FindIterFrom(_, _, _)
FindIterFrom(pattern, text, pos) ==
    LET later == {s \in pos..(Len(text) - Len(pattern)) :
                     MatchesAt(pattern, text, s)}
    IN  IF later = {} THEN << >>
        ELSE LET first == CHOOSE s \in later : \A t \in later : s <= t
             IN  <<first>> \o FindIterFrom(pattern, text, first + Len(pattern))

FindIter(pattern, text) == FindIterFrom(pattern, text, 0)

\* re.search(pattern, str, re.IGNORECASE) finds a match
Search(pattern, str) ==
    \E start \in 0..(Len(str) - Len(pattern)) : MatchesAt(pattern, str, start)

(***************************************************************************)
(* The rule table.  ComplianceRules.get_default_rules has four shapes of   *)
(* rule: patterns only; patterns and context exceptions; patterns and a    *)
(* page-type policy; all three.  DefaultRules holds one rule of each, with *)
(* the policies of the source.  CustomRules is a table put in self.rules   *)
(* whose first rule has context exceptions and a policy with "flag", and   *)
(* leaves the page type "other" out of the policy.                         *)
(***************************************************************************)
PageTypes == {"blog", "product", "other"}

RuleBranded ==
    [name |-> "branded_medications", category |-> "fda", severity |-> "high",
     patterns |-> << <<"b">>, <<"q">> >>,
     context_exceptions |-> << <<"x", "b">> >>,
     page_type_rules |-> [blog |-> "allow", product |-> "check_context",
                          other |-> "check_context"]]

RuleMiracle ==
    [name |-> "miracle_claims", category |-> "ftc", severity |-> "high",
     patterns |-> << <<"b">> >>]

RuleWeightLoss ==
    [name |-> "weight_loss_claims", category |-> "ftc", severity |-> "high",
     patterns |-> << <<"q", "b">> >>,
     context_exceptions |-> << <<"x">> >>]

RuleProhibited ==
    [name |-> "prohibited_terms", category |-> "fda", severity |-> "high",
     patterns |-> << <<"b">>, <<"q">> >>,
     page_type_rules |-> [blog |-> "check_context", product |-> "flag",
                          other |-> "check_context"]]

RuleCustom ==
    [name |-> "custom_terms", category |-> "hipaa", severity |-> "medium",
     patterns |-> << <<"b">>, <<"q">> >>,
     context_exceptions |-> << <<"x">> >>,
     page_type_rules |-> [blog |-> "allow", product |-> "flag"]]

DefaultRules == <<RuleBranded, RuleMiracle, RuleWeightLoss, RuleProhibited>>

CustomRules == <<RuleCustom, RuleMiracle>>

RuleTables == {DefaultRules, CustomRules}

(***************************************************************************)
(* ComplianceAnalyzer: the scans of one page                               *)
(***************************************************************************)
RuleActionIgnoringAllow(rule, page_type) ==
    IF "page_type_rules" \in DOMAIN rule
       /\ page_type \in DOMAIN rule.page_type_rules
       /\ rule.page_type_rules[page_type] # "allow"
    THEN rule.page_type_rules[page_type]
    ELSE "none"

\* "if 'page_type_rules' in rule and page_type in rule['page_type_rules']:
\* rule_action = rule['page_type_rules'][page_type]", "none" when the rule
\* has no policy for the page type
RuleAction(rule, page_type) ==
    IF "page_type_rules" \in DOMAIN rule
       /\ page_type \in DOMAIN rule.page_type_rules
    THEN rule.page_type_rules[page_type]
    ELSE "none"

IsFlagNever(action) == FALSE

\* _analyze_text_content: "elif rule_action == 'flag'"
IsFlag(action) == action = "flag"

ExceptionContextNarrow(text, start, end) ==
    Slice(text, Max(0, start - SnippetWindow), Min(Len(text), end + SnippetWindow))

\* _analyze_text_content: the context an exception is searched in, 100
\* characters before and after the match
ExceptionContext(text, start, end) ==
    Slice(text, Max(0, start - ContextWindow), Min(Len(text), end + ContextWindow))

\* The context reported with a finding, 50 characters before and after
SnippetContext(text, start, end) ==
    Strip(Slice(text, Max(0, start - SnippetWindow),
                Min(Len(text), end + SnippetWindow)))

\* "if 'context_exceptions' in rule: for exception in ...: if re.search(
\* exception, context, re.IGNORECASE): exception_found = True"
ExceptionFound(rule, context) ==
    /\ "context_exceptions" \in DOMAIN rule
    /\ \E i \in 1..Len(rule.context_exceptions) :
          Search(rule.context_exceptions[i], context)

Finding(rule, pattern, matched, context, location, page_type) ==
    [type |-> rule.name, category |-> rule.category,
     severity |-> rule.severity, pattern |-> pattern,
     matched_text |-> matched, context |-> context, location |-> location,
     page_type |-> page_type]

\* The findings of one pattern of one rule in the page text
PatternTextFindings(rule, pattern, text, page_type) ==
    LET action  == RuleAction(rule, page_type)
        end(s)  == s + Len(pattern)
        Kept(s) == \/ IsFlag(action)
                   \/ ~ExceptionFound(rule, ExceptionContext(text, s, end(s)))
        starts  == SelectSeq(FindIter(pattern, text), Kept)
    IN  [i \in 1..Len(starts) |->
            Finding(rule, pattern, Slice(text, starts[i], end(starts[i])),
                    SnippetContext(text, starts[i], end(starts[i])),
                    "page_content", page_type)]

\* _analyze_text_content: no statement of it reads the title it is given
AnalyzeTextContent(text, title, page_type) ==
    Flatten([r \in 1..Len(rules) |->
        IF RuleAction(rules[r], page_type) = "allow" THEN << >>
        ELSE Flatten([k \in 1..Len(rules[r].patterns) |->
                 PatternTextFindings(rules[r], rules[r].patterns[k], text,
                                     page_type)])])

\* The findings of one rule on a string scanned as a whole (a header, an
\* image's alt or title): one per pattern that matches, unless the action
\* is allow or an exception matches the string
WholeStringFindings(rule, str, context, location, page_type) ==
    IF RuleAction(rule, page_type) = "allow" THEN << >>
    ELSE LET Hit(pattern) == Search(pattern, str) /\ ~ExceptionFound(rule, str)
             hits == SelectSeq(rule.patterns, Hit)
         IN  [i \in 1..Len(hits) |->
                 Finding(rule, hits[i], str, context, location, page_type)]

\* _analyze_headers
AnalyzeHeaders(headers, page_type) ==
    Flatten([h \in 1..Len(headers) |->
        Flatten([r \in 1..Len(rules) |->
            WholeStringFindings(rules[r], headers[h], headers[h], "header",
                                page_type)])])

HttpPrefix == <<"h", "t", "t", "p", ":", "/", "/">>

\* _check_https
CheckHttps(url) ==
    IF StartsWith(UrlString(url), HttpPrefix)
    THEN << [type |-> "security_issues", category |-> "technical",
             severity |-> "high",
             pattern |-> HttpPrefix, matched_text |-> url,
             context |-> url, location |-> "url"] >>
    ELSE << >>

ImageFields == <<"alt", "title">>

ImageLocation(field) == IF field = "alt" THEN "image_alt" ELSE "image_title"

\* _analyze_images
AnalyzeImages(imgs, page_type) ==
    Flatten([i \in 1..Len(imgs) |->
        Flatten([f \in 1..Len(ImageFields) |->
            IF imgs[i][ImageFields[f]] = << >> THEN << >>
            ELSE Flatten([r \in 1..Len(rules) |->
                     WholeStringFindings(rules[r], imgs[i][ImageFields[f]],
                         [field |-> ImageFields[f],
                          text |-> imgs[i][ImageFields[f]]],
                         ImageLocation(ImageFields[f]), page_type)])])])

\* health_patterns
HealthPatterns ==
    << <<"h", "e", "a", "l", "t", "h">>,
       <<"m", "e", "d", "i", "c", "a", "l">>,
       <<"s", "y", "m", "p", "t", "o", "m">>,
       <<"c", "o", "n", "d", "i", "t", "i", "o", "n">>,
       <<"d", "i", "a", "g", "n", "o", "s", "i", "s">>,
       <<"t", "r", "e", "a", "t", "m", "e", "n", "t">>,
       <<"m", "e", "d", "i", "c", "a", "t", "i", "o", "n">>,
       <<"p", "r", "e", "s", "c", "r", "i", "p", "t", "i", "o", "n">>,
       <<"w", "e", "i", "g", "h", "t">>,
       <<"h", "e", "i", "g", "h", "t">>,
       <<"b", "m", "i">>,
       <<"b", "l", "o", "o", "d">> >>

\* sensitive_inputs: the input, once for each health pattern found in its
\* name, id or placeholder
SensitiveInputs(form) ==
    Flatten([i \in 1..Len(form.inputs) |->
        Flatten([k \in 1..Len(HealthPatterns) |->
            IF \/ Search(HealthPatterns[k], LowerStr(form.inputs[i].name))
               \/ Search(HealthPatterns[k], LowerStr(form.inputs[i].id))
               \/ Search(HealthPatterns[k], LowerStr(form.inputs[i].placeholder))
            THEN <<form.inputs[i]>> ELSE << >>])])

InsecureActionAnyScheme(action) ==
    action # << >> /\ (StartsWith(action, HttpPrefix)
                       \/ StartsWith(action, <<"h", "t", "t", "p", "s", ":", "/", "/">>))

\* "form['action'] and form['action'].startswith('http://')"
InsecureAction(action) == action # << >> /\ StartsWith(action, HttpPrefix)

MethodIsPostExactly(method) == method = <<"p", "o", "s", "t">>

\* "form['method'].lower() != 'post'", negated
MethodIsPost(method) == LowerStr(method) = <<"p", "o", "s", "t">>

FormLocation(form_index, part) == "form_" \o ToString(form_index) \o "_" \o part

\* The findings of _analyze_forms for the form at form_index (from 0)
FormFindings(form, form_index, page_type) ==
    (IF InsecureAction(form.action)
     THEN << [type |-> "security_issues", category |-> "technical",
              severity |-> "high", pattern |-> HttpPrefix,
              matched_text |-> form.action, context |-> form.action,
              location |-> FormLocation(form_index, "action"),
              page_type |-> page_type] >>
     ELSE << >>)
    \o
    (IF SensitiveInputs(form) # << >> /\ ~MethodIsPost(form.method)
     THEN << [type |-> "security_issues", category |-> "technical",
              severity |-> "medium", pattern |-> <<"f", "o", "r", "m", " ", "m", "e", "t", "h", "o", "d">>,
              matched_text |-> form.method, context |-> form.method,
              location |-> FormLocation(form_index, "method"),
              page_type |-> page_type] >>
     ELSE << >>)

\* _analyze_forms
AnalyzeForms(fs, page_type) ==
    Flatten([i \in 1..Len(fs) |-> FormFindings(fs[i], i - 1, page_type)])

\* self.findings[url].append(...) for each finding of news, in order
AppendFindings(fd, url, news) ==
    IF news = << >> THEN fd
    ELSE Put(fd, url, (IF url \in DOMAIN fd THEN fd[url] ELSE << >>) \o news)

\* page_data.get('page_type', 'other')
PageTypeOf(page_data) ==
    IF "page_type" \in DOMAIN page_data THEN page_data.page_type ELSE "other"

\* The body of the loop of analyze_pages for one page
PageFindings(url) ==
    LET page_data == page_content[url]
        page_type == PageTypeOf(page_data)
    IN  AnalyzeTextContent(page_data.text, page_data.title, page_type)
        \o AnalyzeHeaders(page_data.headers, page_type)
        \o CheckHttps(url)
        \o (IF url \in DOMAIN forms
            THEN AnalyzeForms(forms[url], page_type) ELSE << >>)
        \o (IF url \in DOMAIN images
            THEN AnalyzeImages(images[url], page_type) ELSE << >>)

(***************************************************************************)
(* ComplianceAnalyzer: the site-wide check and the scores                  *)
(***************************************************************************)
\* The key of the site-wide findings, 'site_wide'
SiteWide == Url("", "site_wide", << >>)

WordPrivacy == <<"p", "r", "i", "v", "a", "c", "y">>

WordTerms == <<"t", "e", "r", "m", "s">>

WordConditions == <<"c", "o", "n", "d", "i", "t", "i", "o", "n", "s">>

\* privacy_patterns and terms_patterns; r'privacy\s+policy',
\* r'privacy\s+notice' and r'terms\s+of\s+(?:use|service)' match only
\* where r'privacy' and r'terms' do
PrivacyPatterns == <<WordPrivacy>>

TermsPatterns == <<WordTerms, WordConditions>>

TextMentionsNever(text, patterns) == FALSE

\* "for pattern in patterns: if re.search(pattern, text, re.IGNORECASE)"
TextMentions(text, patterns) ==
    \E i \in 1..Len(patterns) : Search(patterns[i], text)

\* _check_required_pages: the findings it appends to findings['site_wide']
CheckRequiredPages ==
    LET urls == DOMAIN page_content
        privacy_url == \E u \in urls : TextMentions(UrlString(u), PrivacyPatterns)
        terms_url   == \E u \in urls : TextMentions(UrlString(u), TermsPatterns)
        privacy_found ==
            \/ privacy_url
            \/ \E u \in urls : TextMentions(page_content[u].text, PrivacyPatterns)
        terms_found ==
            \/ terms_url
            \/ \E u \in urls : TextMentions(page_content[u].text, TermsPatterns)
    IN  (IF ~privacy_found
         THEN << [type |-> "missing_privacy_policy", category |-> "hipaa",
                  severity |-> "high", pattern |-> WordPrivacy,
                  matched_text |-> << >>, context |-> << >>,
                  location |-> "site_wide"] >>
         ELSE << >>)
        \o
        (IF ~terms_found
         THEN << [type |-> "missing_terms", category |-> "legal",
                  severity |-> "medium", pattern |-> WordTerms,
                  matched_text |-> << >>, context |-> << >>,
                  location |-> "site_wide"] >>
         ELSE << >>)

ScoreTableUniform ==
    [c \in {"hipaa", "fda", "legitscript", "ftc", "technical"} |->
        [cap |-> 50, high |-> 10, medium |-> 4, low |-> 1]]

\* Scores are kept in half points, so that the weight 0.5 is 1: cap and
\* weights of _calculate_scores, doubled
ScoreTable ==
    [hipaa       |-> [cap |-> 50, high |-> 10, medium |-> 4, low |-> 1],
     fda         |-> [cap |-> 50, high |-> 10, medium |-> 4, low |-> 1],
     legitscript |-> [cap |-> 40, high |-> 8,  medium |-> 3, low |-> 1],
     ftc         |-> [cap |-> 30, high |-> 6,  medium |-> 3, low |-> 1],
     technical   |-> [cap |-> 30, high |-> 6,  medium |-> 3, low |-> 1]]

Categories == DOMAIN ScoreTable

Severities == {"high", "medium", "low"}

\* self.scores of __init__
ZeroScores ==
    [hipaa |-> 0, fda |-> 0, legitscript |-> 0, ftc |-> 0, technical |-> 0,
     total |-> 0]

RECURSIVE SumOver(_, _)
SumOver(S, f) ==
    IF S = {} THEN 0
    ELSE LET k == CHOOSE k \in S : TRUE IN f[k] + SumOver(S \ {k}, f)

CategoryCountLenient(fd, category, severity) ==
    SumOver(DOMAIN fd,
            [k \in DOMAIN fd |->
                Cardinality({i \in 1..Len(fd[k]) :
                    /\ fd[k][i].category = category
                    /\ \/ fd[k][i].severity = severity
                       \/ severity = "low" /\ fd[k][i].severity \notin {"high", "medium"}})])

\* category_counts[category][severity]
CategoryCount(fd, category, severity) ==
    SumOver(DOMAIN fd,
            [k \in DOMAIN fd |->
                Cardinality({i \in 1..Len(fd[k]) :
                    fd[k][i].category = category /\ fd[k][i].severity = severity})])

CategoryScoreUnclamped(fd, c) ==
    ScoreTable[c].cap
    - (CategoryCount(fd, c, "high") * ScoreTable[c].high
       + CategoryCount(fd, c, "medium") * ScoreTable[c].medium
       + CategoryCount(fd, c, "low") * ScoreTable[c].low)

CategoryScore(fd, c) ==
    LET deductions == CategoryCount(fd, c, "high") * ScoreTable[c].high
                      + CategoryCount(fd, c, "medium") * ScoreTable[c].medium
                      + CategoryCount(fd, c, "low") * ScoreTable[c].low
    IN  Max(0, ScoreTable[c].cap - Min(deductions, ScoreTable[c].cap))

\* _calculate_scores
CalculateScores(fd) ==
    [hipaa       |-> CategoryScore(fd, "hipaa"),
     fda         |-> CategoryScore(fd, "fda"),
     legitscript |-> CategoryScore(fd, "legitscript"),
     ftc         |-> CategoryScore(fd, "ftc"),
     technical   |-> CategoryScore(fd, "technical"),
     total       |-> CategoryScore(fd, "hipaa") + CategoryScore(fd, "fda")
                     + CategoryScore(fd, "legitscript") + CategoryScore(fd, "ftc")
                     + CategoryScore(fd, "technical")]

(***************************************************************************)
(* The crawl: TelehealthCrawler(start_url, max_pages).crawl() on a site    *)
(***************************************************************************)
\* __init__ of the crawler on a start URL, and of an analyzer not yet used
CrawlFractionPercent(visited, cap) == <<100 * Cardinality(visited), cap>>

\* crawl: "len(self.visited_urls) / self.max_pages", as <<numerator,
\* denominator>>
CrawlFraction(visited, cap) == <<Cardinality(visited), cap>>

\* analyze_pages: "i / total_pages"
AnalyzeFraction(i, total_pages) == <<i, total_pages>>

\* "if progress_callback: progress_callback(message, fraction)": the
\* callback of the model keeps what it is called with
Notify(log, stage, fraction) ==
    IF progress_callback
    THEN Append(log, [stage |-> stage, fraction |-> fraction])
    ELSE log

Init ==
    \E raw \in SeedInputs, cap \in 1..MaxPagesCap, st \in [SitePaths -> PageChoices] :
        /\ start_url = NormalizeSeed(raw)
        /\ base_domain = ExtractDomain(NormalizeSeed(raw))
        /\ max_pages = cap
        /\ visited_urls = {}
        /\ queue = <<NormalizeSeed(raw)>>
        /\ page_content = EmptyDict
        /\ forms = EmptyDict
        /\ images = EmptyDict
        /\ pdfs = EmptyDict
        /\ page_types = EmptyDict
        /\ site = st
        /\ pc = "crawl"
        /\ fetchLog = << >>
        /\ enqLog = <<NormalizeSeed(raw)>>
        /\ deqLog = << >>
        /\ rules = DefaultRules
        /\ findings = EmptyDict
        /\ scores = ZeroScores
        /\ analyzed = {}
        /\ apc = "idle"
        /\ progress_callback = FALSE
        /\ progressLog = << >>
        /\ results = << >>
        /\ absolute_url = None

\* A loop iteration that pops a URL already visited
CrawlSkip ==
    /\ pc = "crawl"
    /\ LoopGuard(queue, visited_urls, max_pages)
    /\ AlreadyVisited(PopFront(queue).item, visited_urls)
    /\ queue' = PopFront(queue).rest
    /\ deqLog' = Append(deqLog, PopFront(queue).item)
    /\ UNCHANGED <<start_url, base_domain, max_pages, visited_urls,
                   page_content, forms, images, pdfs, page_types, site, pc,
                   fetchLog, enqLog>>
    /\ UNCHANGED analyzerVars
    /\ UNCHANGED callVars

\* A loop iteration that fetches the popped URL
CrawlFetch ==
    /\ pc = "crawl"
    /\ LoopGuard(queue, visited_urls, max_pages)
    /\ ~AlreadyVisited(PopFront(queue).item, visited_urls)
    /\ \E resp \in GetPageContent(PopFront(queue).item, site) :
        LET current_url == PopFront(queue).item
            rest        == PopFront(queue).rest
            r           == CrawlPage(current_url, resp, rest)
        IN  /\ queue' = r.queue
            /\ visited_urls' = r.visited_urls
            /\ page_content' = r.page_content
            /\ forms' = r.forms
            /\ images' = r.images
            /\ pdfs' = r.pdfs
            /\ page_types' = r.page_types
            /\ fetchLog' = Append(fetchLog, [url |-> current_url,
                                             status |-> StatusOf(resp),
                                             outcome |-> r.outcome])
            /\ deqLog' = Append(deqLog, current_url)
            /\ enqLog' = enqLog \o SubSeq(r.queue, Len(rest) + 1, Len(r.queue))
    /\ progressLog' = Notify(progressLog, "crawl",
                             CrawlFraction(visited_urls, max_pages))
    /\ UNCHANGED <<start_url, base_domain, max_pages, site, pc>>
    /\ UNCHANGED analyzerVars
    /\ UNCHANGED <<progress_callback, results, absolute_url>>

\* The loop ends and crawl returns the corpus
CrawlReturn ==
    /\ pc = "crawl"
    /\ ~LoopGuard(queue, visited_urls, max_pages)
    /\ pc' = "done"
    /\ UNCHANGED <<start_url, base_domain, max_pages, visited_urls, queue,
                   page_content, forms, images, pdfs, page_types, site,
                   fetchLog, enqLog, deqLog>>
    /\ UNCHANGED analyzerVars
    /\ UNCHANGED callVars

Next == CrawlSkip \/ CrawlFetch \/ CrawlReturn

Spec == Init /\ [][Next]_vars

\* crawl is sequential code: it keeps running until it returns
FairSpec == Init /\ [][Next]_vars /\ WF_vars(Next)

(***************************************************************************)
(* The analysis: ComplianceAnalyzer(crawler_data).analyze_pages() on a     *)
(* corpus of two pages.  The first page has a text made of blocks (a       *)
(* character of a pattern, of an exception, or a run of ContextWindow - 1  *)
(* or ContextWindow filler characters), headings and images; the second is *)
(* a fixed page with an http:// URL and forms.                             *)
(***************************************************************************)
Dots(n) == [i \in 1..n |-> "."]

Blocks == {<<"b">>, <<"Q">>, <<"x">>, Dots(ContextWindow - 1), Dots(ContextWindow)}

Texts == {Flatten(bs) : bs \in UNION {[1..k -> Blocks] : k \in 0..MaxBlocks}}

HeaderChoices ==
    {<< >>, << <<"b">> >>, << <<"x", "b">>, <<"Q">> >>, << <<"B", ".", "x">> >>}

Image(alt, title) == [src |-> "i.png", alt |-> alt, title |-> title]

ImageChoices ==
    {<< >>, <<Image(<<"b">>, <<"q">>)>>,
     <<Image(<< >>, <<"x", "b">>), Image(<<"q", "b", "x">>, << >>)>>}

DefaultText == <<"b">>

DefaultTitle == <<"t">>

TitleChoices == {<< >>, <<"t">>, <<"b">>, <<"Q", " ", "b">>}

TitleTexts == {<< >>, <<"x">>, <<"b">>, <<".", "Q">>}

DefaultHeaders == << <<"b">> >>

DefaultImages == <<Image(<<"b">>, <<"q">>)>>

FirstUrl == Url("https", SeedHost, << >>)

SecondUrl == Url("http", SeedHost, <<"x">>)

SecondText == WordPrivacy \o <<" ", "x", "q", "b">>

SecondUrlChoices ==
    {Url(sch, SeedHost, <<seg>>) :
        sch \in {"http", "https"}, seg \in {"x", "privacy-policy", "terms"}}

SecondTextChoices ==
    {SecondText, <<"x", "q", "b">>, <<"T", "e", "r", "m", "s">>,
     <<"b", " ">> \o WordConditions, WordTerms \o <<" ">> \o WordPrivacy}

FormInput(name, id, placeholder) ==
    [type |-> "text", name |-> name, id |-> id, placeholder |-> placeholder,
     required |-> FALSE]

Form(action, method, inputs) ==
    [action |-> action, method |-> method, inputs |-> inputs]

InputEmail == FormInput(<<"e", "m", "a", "i", "l">>, << >>, << >>)

InputWeight == FormInput(<<"w", "e", "i", "g", "h", "t">>, << >>, << >>)

InputBmiId == FormInput(<<"v">>, <<"B", "M", "I", "_", "1">>, << >>)

InputBloodCondition == FormInput(<<"n">>, << >>, <<"B", "l", "o", "o", "d", " ", "c", "o", "n", "d", "i", "t", "i", "o", "n">>)

ActionHttp == <<"h", "t", "t", "p", ":", "/", "/", "a", ".", "c", "o", "m", "/", "s">>

ActionHttps == <<"h", "t", "t", "p", "s", ":", "/", "/", "a", ".", "c", "o", "m", "/", "s">>

ActionRelative == <<"/", "s", "i", "g", "n", "u", "p">>

MethodChoices == {<<"g", "e", "t">>, <<"G", "E", "T">>, <<"P", "o", "s", "t">>, <<"P", "O", "S", "T">>}

\* The forms of the second page: an insecure action with a GET of health
\* data, a relative action with a Post of health data, a secure action
\* with no health data
SecondForms ==
    << Form(ActionHttp, <<"G", "E", "T">>, <<InputBloodCondition>>),
       Form(ActionRelative, <<"P", "o", "s", "t">>, <<InputEmail, InputWeight>>),
       Form(ActionHttps, <<"g", "e", "t">>, <<InputEmail>>) >>

InputChoices ==
    {<< >>, <<InputEmail>>, <<InputWeight>>, <<InputEmail, InputBmiId>>,
     <<InputBloodCondition, InputWeight>>}

FormChoices ==
    {Form(a, m, ins) :
        a \in {ActionHttp, ActionHttps, ActionRelative, << >>},
        m \in MethodChoices, ins \in InputChoices}

FormListChoices ==
    {<< >>, SecondForms} \cup {<<FormSample, f>> : f \in FormChoices}

Corpus(ti, t, hs, imgs, su, st, fs) ==
    [title |-> ti, text |-> t, headers |-> hs, images |-> imgs,
     second_url |-> su, second_text |-> st, second_forms |-> fs]

\* The corpora analyzed: one of the text of the first page, its markup,
\* its title (on a page without headings and images),
\* the URL and text of the second page, the forms of the second page is
\* drawn from its choices, the others are fixed
Corpora ==
    {Corpus(DefaultTitle, t, DefaultHeaders, DefaultImages, SecondUrl, SecondText, SecondForms) :
        t \in Texts}
    \cup {Corpus(DefaultTitle, DefaultText, hs, imgs, SecondUrl, SecondText, SecondForms) :
        hs \in HeaderChoices, imgs \in ImageChoices}
    \cup {Corpus(DefaultTitle, DefaultText, DefaultHeaders, DefaultImages, su, st, SecondForms) :
        su \in SecondUrlChoices, st \in SecondTextChoices}
    \cup {Corpus(DefaultTitle, DefaultText, DefaultHeaders, DefaultImages, SecondUrl, SecondText, fs) :
        fs \in FormListChoices}
    \cup {Corpus(ti, t, << >>, << >>, SecondUrl, SecondText, SecondForms) :
        ti \in TitleChoices, t \in TitleTexts}

\* ComplianceAnalyzer(crawler_data) on the corpus a crawl returned, with
\* analyze_pages entered
InitAnalyze ==
    \E tbl \in RuleTables, pt \in PageTypes, c \in Corpora :
        /\ start_url = FirstUrl
        /\ base_domain = ExtractDomain(FirstUrl)
        /\ max_pages = 2
        /\ visited_urls = {FirstUrl, c.second_url}
        /\ queue = << >>
        /\ page_content =
              Put(Put(EmptyDict, FirstUrl,
                      [title |-> c.title, text |-> c.text,
                       meta_description |-> << >>,
                       headers |-> c.headers, page_type |-> pt]),
                  c.second_url,
                  [title |-> <<"t">>, text |-> c.second_text,
                   meta_description |-> << >>, headers |-> << >>,
                   page_type |-> "other"])
        /\ forms = PutIfAny(EmptyDict, c.second_url, c.second_forms)
        /\ images = PutIfAny(EmptyDict, FirstUrl, c.images)
        /\ pdfs = EmptyDict
        /\ page_types = Put(Put(EmptyDict, FirstUrl, pt), c.second_url, "other")
        /\ site = EmptyDict
        /\ pc = "done"
        /\ fetchLog = << >>
        /\ enqLog = << >>
        /\ deqLog = << >>
        /\ rules = tbl
        /\ findings = EmptyDict
        /\ scores = ZeroScores
        /\ analyzed = {}
        /\ apc = "pages"
        /\ progress_callback = FALSE
        /\ progressLog = << >>
        /\ results = << >>
        /\ absolute_url = None

\* One iteration of the loop of analyze_pages.  The loop takes the pages
\* in the order of the dict; the model takes them in any order.
AnalyzePage ==
    /\ apc = "pages"
    /\ \E url \in (DOMAIN page_content) \ analyzed :
        /\ findings' = AppendFindings(findings, url, PageFindings(url))
        /\ analyzed' = analyzed \cup {url}
    /\ progressLog' = Notify(progressLog, "analyze",
                             AnalyzeFraction(Cardinality(analyzed),
                                             Cardinality(DOMAIN page_content)))
    /\ UNCHANGED <<rules, scores, apc>>
    /\ UNCHANGED crawlVars
    /\ UNCHANGED <<progress_callback, results, absolute_url>>

\* After the loop: _check_required_pages, _calculate_scores, and the
\* return of the findings and scores as they are then
AnalyzeReturn ==
    /\ apc = "pages"
    /\ analyzed = DOMAIN page_content
    /\ findings' = AppendFindings(findings, SiteWide, CheckRequiredPages)
    /\ scores' = CalculateScores(findings')
    /\ apc' = "done"
    /\ results' = Append(results, [findings |-> findings', scores |-> scores'])
    /\ UNCHANGED <<rules, analyzed>>
    /\ UNCHANGED crawlVars
    /\ UNCHANGED <<progress_callback, progressLog, absolute_url>>

NextAnalyze == AnalyzePage \/ AnalyzeReturn

SpecAnalyze == InitAnalyze /\ [][NextAnalyze]_vars

(***************************************************************************)
(* analyze_pages() called twice on one ComplianceAnalyzer                  *)
(***************************************************************************)
ReanalyzeCorpora ==
    {Corpus(ti, t, << >>, << >>, SecondUrl, SecondText, SecondForms) :
        ti \in TitleChoices, t \in TitleTexts}
    \cup {Corpus(DefaultTitle, DefaultText, hs, imgs, su, SecondText, << >>) :
        hs \in HeaderChoices, imgs \in ImageChoices, su \in SecondUrlChoices}

\* ComplianceAnalyzer(crawler_data), with the first call of analyze_pages
\* entered
InitReanalyze ==
    \E tbl \in RuleTables, pt \in PageTypes, c \in ReanalyzeCorpora :
        /\ start_url = FirstUrl
        /\ base_domain = ExtractDomain(FirstUrl)
        /\ max_pages = 2
        /\ visited_urls = {FirstUrl, c.second_url}
        /\ queue = << >>
        /\ page_content =
              Put(Put(EmptyDict, FirstUrl,
                      [title |-> c.title, text |-> c.text,
                       meta_description |-> << >>,
                       headers |-> c.headers, page_type |-> pt]),
                  c.second_url,
                  [title |-> <<"t">>, text |-> c.second_text,
                   meta_description |-> << >>, headers |-> << >>,
                   page_type |-> "other"])
        /\ forms = PutIfAny(EmptyDict, c.second_url, c.second_forms)
        /\ images = PutIfAny(EmptyDict, FirstUrl, c.images)
        /\ pdfs = EmptyDict
        /\ page_types = Put(Put(EmptyDict, FirstUrl, pt), c.second_url, "other")
        /\ site = EmptyDict
        /\ pc = "done"
        /\ fetchLog = << >>
        /\ enqLog = << >>
        /\ deqLog = << >>
        /\ rules = tbl
        /\ findings = EmptyDict
        /\ scores = ZeroScores
        /\ analyzed = {}
        /\ apc = "pages"
        /\ progress_callback = FALSE
        /\ progressLog = << >>
        /\ results = << >>
        /\ absolute_url = None

\* The second call of analyze_pages on the same object: self.findings and
\* self.scores are what the first call left, the loop starts again
AnalyzeAgain ==
    /\ apc = "done"
    /\ Len(results) = 1
    /\ apc' = "pages"
    /\ analyzed' = {}
    /\ UNCHANGED <<rules, findings, scores>>
    /\ UNCHANGED crawlVars
    /\ UNCHANGED callVars

NextReanalyze == AnalyzePage \/ AnalyzeReturn \/ AnalyzeAgain

SpecReanalyze == InitReanalyze /\ [][NextReanalyze]_vars

(***************************************************************************)
(* TelehealthCrawler(start_url) and crawl() on seeds of every kind         *)
(***************************************************************************)
SeedUnparsable == Url("", "[bad", << >>)          \* [bad
SeedUnparsableHttp == Url("http", "[bad", << >>)  \* http://[bad
SeedNoHost == Url("", "", << >>)                  \* the empty string

\* _extract_domain: urllib.parse.urlparse(url) raises ValueError("Invalid
\* IPv6 URL") on a netloc with one square bracket
Unparsable(url) == url.host = "[bad"

SeedChoices == SeedInputs \cup {SeedUnparsable, SeedUnparsableHttp, SeedNoHost}

\* __init__: self.start_url is assigned, then _extract_domain is called;
\* when it raises, no other attribute has been assigned and no crawler
\* is constructed
InitSeed ==
    \E raw \in SeedChoices, cap \in 1..MaxPagesCap,
       st \in [SitePaths -> PageChoices] :
        LET seed == NormalizeSeed(raw)
            ok   == ~Unparsable(seed)
        IN  /\ start_url = seed
            /\ base_domain = IF ok THEN ExtractDomain(seed) ELSE ""
            /\ max_pages = cap
            /\ visited_urls = {}
            /\ queue = IF ok THEN <<seed>> ELSE << >>
            /\ page_content = EmptyDict
            /\ forms = EmptyDict
            /\ images = EmptyDict
            /\ pdfs = EmptyDict
            /\ page_types = EmptyDict
            /\ site = st
            /\ pc = IF ok THEN "crawl" ELSE "raised"
            /\ fetchLog = << >>
            /\ enqLog = IF ok THEN <<seed>> ELSE << >>
            /\ deqLog = << >>
            /\ rules = DefaultRules
            /\ findings = EmptyDict
            /\ scores = ZeroScores
            /\ analyzed = {}
            /\ apc = "idle"
            /\ progress_callback = FALSE
            /\ progressLog = << >>
            /\ results = << >>
            /\ absolute_url = None

SpecSeed == InitSeed /\ [][Next]_vars

(***************************************************************************)
(* crawl() and then analyze_pages() on the corpus it returned, with and    *)
(* without a progress callback                                             *)
(***************************************************************************)
InitProgress ==
    \E raw \in SeedInputs, cap \in 1..MaxPagesCap,
       st \in [SitePaths -> PageChoices], cb \in BOOLEAN :
        /\ start_url = NormalizeSeed(raw)
        /\ base_domain = ExtractDomain(NormalizeSeed(raw))
        /\ max_pages = cap
        /\ visited_urls = {}
        /\ queue = <<NormalizeSeed(raw)>>
        /\ page_content = EmptyDict
        /\ forms = EmptyDict
        /\ images = EmptyDict
        /\ pdfs = EmptyDict
        /\ page_types = EmptyDict
        /\ site = st
        /\ pc = "crawl"
        /\ fetchLog = << >>
        /\ enqLog = <<NormalizeSeed(raw)>>
        /\ deqLog = << >>
        /\ rules = DefaultRules
        /\ findings = EmptyDict
        /\ scores = ZeroScores
        /\ analyzed = {}
        /\ apc = "idle"
        /\ progress_callback = cb
        /\ progressLog = << >>
        /\ results = << >>
        /\ absolute_url = None

\* ComplianceAnalyzer(crawler_data) on what crawl returned, and
\* analyze_pages entered
AnalyzeStart ==
    /\ pc = "done"
    /\ apc = "idle"
    /\ apc' = "pages"
    /\ UNCHANGED <<rules, findings, scores, analyzed>>
    /\ UNCHANGED crawlVars
    /\ UNCHANGED callVars

NextProgress ==
    \/ CrawlSkip \/ CrawlFetch \/ CrawlReturn
    \/ AnalyzeStart \/ AnalyzePage \/ AnalyzeReturn

SpecProgress == InitProgress /\ [][NextProgress]_vars

(***************************************************************************)
(* The score calculator on its own: _calculate_scores on a findings        *)
(* mapping that holds, under a page URL, up to MaxCount findings of each   *)
(* severity in one category and, under site_wide, a few more findings,     *)
(* among them findings of a category or severity the calculator does not   *)
(* know and findings without a category or a severity.                     *)
(***************************************************************************)
ScoreFinding(category, severity) ==
    [type |-> "t", category |-> category, severity |-> severity,
     location |-> "page_content"]

FindingNoCategory == [type |-> "t", severity |-> "high", location |-> "page_content"]

FindingNoSeverity == [type |-> "t", category |-> "hipaa", location |-> "page_content"]

Repeat(f, n) == [i \in 1..n |-> f]

ExtraChoices ==
    {<< >>,
     <<ScoreFinding("legal", "medium")>>,
     <<ScoreFinding("hipaa", "critical")>>,
     <<ScoreFinding("legal", "medium"), ScoreFinding("fda", "low"),
       ScoreFinding("technical", "info")>>,
     <<ScoreFinding("fda", "high"), ScoreFinding("ftc", "medium"),
       ScoreFinding("legitscript", "low")>>,
     <<FindingNoCategory>>,
     <<ScoreFinding("ftc", "low"), FindingNoSeverity>>}

\* "category = finding['category']; severity = finding['severity']" raises
\* KeyError on a finding without the key
RaisesKeyError(fd) ==
    \E k \in DOMAIN fd : \E i \in 1..Len(fd[k]) :
        \/ "category" \notin DOMAIN fd[k][i]
        \/ "severity" \notin DOMAIN fd[k][i]

InitScore ==
    \E c \in Categories, h \in 0..MaxCount, m \in 0..MaxCount,
       l \in 0..MaxCount, extra \in ExtraChoices :
        /\ start_url = FirstUrl
        /\ base_domain = ExtractDomain(FirstUrl)
        /\ max_pages = 1
        /\ visited_urls = {}
        /\ queue = << >>
        /\ page_content = EmptyDict
        /\ forms = EmptyDict
        /\ images = EmptyDict
        /\ pdfs = EmptyDict
        /\ page_types = EmptyDict
        /\ site = EmptyDict
        /\ pc = "done"
        /\ fetchLog = << >>
        /\ enqLog = << >>
        /\ deqLog = << >>
        /\ rules = DefaultRules
        /\ findings =
              AppendFindings(
                  AppendFindings(EmptyDict, FirstUrl,
                      Repeat(ScoreFinding(c, "high"), h)
                      \o Repeat(ScoreFinding(c, "medium"), m)
                      \o Repeat(ScoreFinding(c, "low"), l)),
                  SiteWide, extra)
        /\ scores = ZeroScores
        /\ analyzed = {}
        /\ apc = "scoring"
        /\ progress_callback = FALSE
        /\ progressLog = << >>
        /\ results = << >>
        /\ absolute_url = None

\* _calculate_scores runs to its end
ScoreReturn ==
    /\ apc = "scoring"
    /\ ~RaisesKeyError(findings)
    /\ scores' = CalculateScores(findings)
    /\ apc' = "done"
    /\ UNCHANGED <<rules, findings, analyzed>>
    /\ UNCHANGED crawlVars
    /\ UNCHANGED callVars

\* _calculate_scores raises while it counts the findings, before it
\* assigns a score
ScoreRaise ==
    /\ apc = "scoring"
    /\ RaisesKeyError(findings)
    /\ apc' = "raised"
    /\ UNCHANGED <<rules, findings, scores, analyzed>>
    /\ UNCHANGED crawlVars
    /\ UNCHANGED callVars

NextScore == ScoreReturn \/ ScoreRaise

SpecScore == InitScore /\ [][NextScore]_vars

(***************************************************************************)
(* The page classifier on its own: _detect_page_type on a URL and a page   *)
(* in which any of the four blog indicators and any of the four product    *)
(* indicators are found.                                                   *)
(***************************************************************************)
BlogIndicators == {"header", "date", "byline", "meta"}

ProductIndicators == {"price", "cart", "details", "shipping"}

DetectUrls ==
    {Url("https", SeedHost, path) :
        path \in {<< >>, <<"x">>, <<"blog", "y">>, <<"shop", "y">>,
                  <<"blog", "shop", "y">>, <<"pricing", "news", "y">>,
                  <<"Blog", "y">>, <<"y", "blog">>, <<"y", "plans">>}}
    \cup {Url("https", "shop", <<"y">>)}

InitDetect ==
    \E u \in DetectUrls, bh \in SUBSET BlogIndicators,
       ph \in SUBSET ProductIndicators :
        /\ start_url = u
        /\ base_domain = ExtractDomain(u)
        /\ max_pages = 1
        /\ visited_urls = {}
        /\ queue = <<u>>
        /\ page_content = EmptyDict
        /\ forms = EmptyDict
        /\ images = EmptyDict
        /\ pdfs = EmptyDict
        /\ page_types = EmptyDict
        /\ site = Put(EmptyDict, u.path, Page(<< >>, << >>, << >>, "absent", bh, ph))
        /\ pc = "detect"
        /\ fetchLog = << >>
        /\ enqLog = <<u>>
        /\ deqLog = << >>
        /\ rules = DefaultRules
        /\ findings = EmptyDict
        /\ scores = ZeroScores
        /\ analyzed = {}
        /\ apc = "idle"
        /\ progress_callback = FALSE
        /\ progressLog = << >>
        /\ results = << >>
        /\ absolute_url = None

\* "page_type = self._detect_page_type(current_url, soup, text);
\* self.page_types[current_url] = page_type"
DetectStep ==
    /\ pc = "detect"
    /\ page_types' = Put(page_types, start_url,
                         DetectPageType(start_url, site[start_url.path]))
    /\ pc' = "detected"
    /\ UNCHANGED <<start_url, base_domain, max_pages, visited_urls, queue,
                   page_content, forms, images, pdfs, site, fetchLog, enqLog,
                   deqLog>>
    /\ UNCHANGED analyzerVars
    /\ UNCHANGED callVars

NextDetect == DetectStep

SpecDetect == InitDetect /\ [][NextDetect]_vars

(***************************************************************************)
(* _normalize_url on one href of one page                                  *)
(***************************************************************************)
HrefAbsX        == Href("abs", "https", "a.com", <<"x">>, FALSE)   \* https://a.com/x
HrefAbsHttpX    == Href("abs", "http", "a.com", <<"x">>, FALSE)    \* http://a.com/x
HrefAbsXFrag    == Href("abs", "https", "a.com", <<"x">>, TRUE)    \* https://a.com/x#sec

\* The href with "?" at its end (before the #part if it has one)
HrefQuery(href) ==
    [kind |-> href.kind, scheme |-> href.scheme, host |-> href.host,
     path |-> href.path, frag |-> href.frag, query |-> ""]

NormalizeHrefs ==
    LET plain == {HrefRootX, HrefRootXFrag, HrefRootBlogY, HrefRelY,
                  HrefFragOnly, HrefProtoX, HrefProtoCdn, HrefAbsHome,
                  HrefAbsOther, HrefAbsX, HrefAbsHttpX, HrefAbsXFrag}
    IN  plain \cup {HrefQuery(h) : h \in plain \ {HrefFragOnly}}

NormalizeBases ==
    LET plain == {Url(s, SeedHost, p) :
                     s \in {"http", "https"},
                     p \in {<< >>, <<"">>, <<"x">>, <<"blog", "y">>}}
    IN  plain \cup {EmptyQuery(u) : u \in plain} \cup {Fragment(u) : u \in plain}

\* _extract_links(soup, base_url) on a page with one a tag, before the call
\* of _normalize_url
InitNormalize ==
    \E base \in NormalizeBases, href \in NormalizeHrefs :
        /\ start_url = base
        /\ base_domain = ExtractDomain(base)
        /\ max_pages = 1
        /\ visited_urls = {}
        /\ queue = << >>
        /\ page_content = EmptyDict
        /\ forms = EmptyDict
        /\ images = EmptyDict
        /\ pdfs = EmptyDict
        /\ page_types = EmptyDict
        /\ site = Put(EmptyDict, base.path,
                      Page(<<href>>, << >>, << >>, "absent", {}, {}))
        /\ pc = "normalize"
        /\ fetchLog = << >>
        /\ enqLog = << >>
        /\ deqLog = << >>
        /\ rules = DefaultRules
        /\ findings = EmptyDict
        /\ scores = ZeroScores
        /\ analyzed = {}
        /\ apc = "idle"
        /\ progress_callback = FALSE
        /\ progressLog = << >>
        /\ results = << >>
        /\ absolute_url = None

\* "href = a_tag['href']; absolute_url = self._normalize_url(href, base_url)"
NormalizeStep ==
    /\ pc = "normalize"
    /\ absolute_url' = NormalizeUrl(site[start_url.path].links[1], start_url)
    /\ pc' = "normalized"
    /\ UNCHANGED <<start_url, base_domain, max_pages, visited_urls, queue,
                   page_content, forms, images, pdfs, page_types, site,
                   fetchLog, enqLog, deqLog>>
    /\ UNCHANGED analyzerVars
    /\ UNCHANGED <<progress_callback, progressLog, results>>

NextNormalize == NormalizeStep

SpecNormalize == InitNormalize /\ [][NextNormalize]_vars

(***************************************************************************)
(* Properties of the crawler                                               *)
(***************************************************************************)
Last(s) == s[Len(s)]

FetchCount(u) == Cardinality({i \in 1..Len(fetchLog) : fetchLog[i].url = u})

FailedStatus(entry) == entry.status # 200

\* Every fetch so far returned status 200 and its page was processed to
\* the end
AllFetchesOk == \A i \in 1..Len(fetchLog) : fetchLog[i].outcome = "ok"

\* The pages of the site a page links to on the seed's host
LinkedPages(u) ==
    IF ~OnSite(u, site) THEN {}
    ELSE LET hrefs == {h \in Range(site[u.path].links) : h.kind # "bad"}
         IN  {v \in {NormalizeUrl(h, u) : h \in hrefs} :
                  v.host = start_url.host /\ OnSite(v, site)}

RECURSIVE ReachableFrom(_)
ReachableFrom(S) ==
    LET next == S \cup UNION {LinkedPages(u) : u \in S}
    IN  IF next = S THEN S ELSE ReachableFrom(next)

ReachablePages == ReachableFrom({start_url})

C2_PageCap ==
    /\ Cardinality(DOMAIN page_content) <= max_pages
    /\ Cardinality(DOMAIN page_types) <= max_pages

\* C3  No retry: no URL is fetched more than once during a crawl run.
C3_NoRetry == \A i \in 1..Len(fetchLog) : FetchCount(fetchLog[i].url) <= 1

\* C4  Domain scoping: every URL ever put in the queue, and every URL
\* fetched, has the host of the normalised seed URL.
C4_DomainScoping ==
    /\ \A i \in 1..Len(enqLog) : enqLog[i].host = start_url.host
    /\ \A i \in 1..Len(queue) : queue[i].host = start_url.host
    /\ \A i \in 1..Len(fetchLog) : fetchLog[i].url.host = start_url.host

\* A page holding a link to another host was fetched and processed to the
\* end, and the crawl has finished
C4_Witness ==
    /\ pc = "done"
    /\ \E i \in 1..Len(fetchLog) :
          /\ fetchLog[i].outcome = "ok"
          /\ \E h \in Range(site[fetchLog[i].url.path].links) :
                /\ h.kind # "bad"
                /\ NormalizeUrl(h, fetchLog[i].url).host # start_url.host

\* C5  Termination: crawl eventually returns, and when it has returned the
\* queue is empty or the visited set holds exactly max_pages URLs.
C5_Termination ==
    /\ <>(pc = "done")
    /\ [](pc = "done" =>
            (queue = << >> \/ Cardinality(visited_urls) = max_pages))

\* A crawl that returned after failed fetches, stopped by the cap with URLs
\* still queued
C5_Witness ==
    /\ pc = "done"
    /\ queue # << >>
    /\ \E i \in 1..Len(fetchLog) : fetchLog[i].outcome # "ok"

\* C6  FIFO: the URLs popped so far, followed by the queue, are the URLs
\* appended so far, in the order of their appends.
C6_Fifo == enqLog = deqLog \o queue

\* Three URLs popped, not all the same, with more waiting
C6_Witness ==
    /\ Len(deqLog) >= 3
    /\ Cardinality(Range(deqLog)) >= 2
    /\ queue # << >>

\* C7  A failed fetch (None, or a status other than 200) has no effect: the
\* iteration only pops the URL; the visited set and the corpus stay as they
\* were, nothing is appended to the queue, and the loop goes on.
C7_FailureNoEffect ==
    [][(fetchLog' # fetchLog /\ FailedStatus(Last(fetchLog')))
        => /\ UNCHANGED <<visited_urls, page_content, forms, images, pdfs,
                          page_types>>
           /\ queue' = Tail(queue)
           /\ enqLog' = enqLog
           /\ pc' = "crawl"]_vars

\* A fetch failed both ways and another URL was fetched after each
C7_Witness ==
    /\ \E i \in 1..(Len(fetchLog) - 1) : fetchLog[i].status = 0
    /\ \E i \in 1..(Len(fetchLog) - 1) : fetchLog[i].status = 503
    /\ Last(fetchLog).outcome = "ok"

(***************************************************************************)
(* Properties of the rule engine                                           *)
(***************************************************************************)
FindingsOf(url) == IF url \in DOMAIN findings THEN findings[url] ELSE << >>

\* The policy a rule states for a page type, "none" if it states none
StatedPolicy(rule, page_type) ==
    IF "page_type_rules" \notin DOMAIN rule THEN "none"
    ELSE IF page_type \notin DOMAIN rule.page_type_rules THEN "none"
    ELSE rule.page_type_rules[page_type]

RuleScanLocations == {"page_content", "header", "image_alt", "image_title"}

\* The page_content findings of a rule's pattern on a page
ContentFindings(url, rule, pattern) ==
    LET Mine(f) == /\ f.location = "page_content"
                   /\ f.type = rule.name
                   /\ f.pattern = pattern
    IN  SelectSeq(FindingsOf(url), Mine)

\* The positions at which a pattern occurs in a text
Occurrences(pattern, text) ==
    {s \in 0..(Len(text) - Len(pattern)) : MatchesAt(pattern, text, s)}

\* An exception of the rule occurs in the text wholly inside the 100
\* characters before start and after end
ExceptionNear(rule, text, start, end) ==
    /\ "context_exceptions" \in DOMAIN rule
    /\ \E i \in 1..Len(rule.context_exceptions) :
          \E t \in Occurrences(rule.context_exceptions[i], text) :
              /\ t >= Max(0, start - 100)
              /\ t + Len(rule.context_exceptions[i]) <= Min(Len(text), end + 100)

PatternIn(rule, str) == \E k \in 1..Len(rule.patterns) : Search(rule.patterns[k], str)

\* C8  Allow policy: a page analyzed under a rule whose policy for the
\* page's type is allow has no finding of that rule from the page text, a
\* header, an image alt or an image title.
C8_AllowPolicy ==
    \A url \in analyzed : \A r \in 1..Len(rules) :
        StatedPolicy(rules[r], PageTypeOf(page_content[url])) = "allow"
        => \A i \in 1..Len(FindingsOf(url)) :
              ~(/\ FindingsOf(url)[i].location \in RuleScanLocations
                /\ FindingsOf(url)[i].type = rules[r].name)

\* An analyzed page whose text, a header and an image alt all match a
\* pattern of a rule that allows the page's type, with findings of other
\* rules on the page
C8_Witness ==
    /\ apc = "done"
    /\ \E url \in analyzed : \E r \in 1..Len(rules) :
          /\ StatedPolicy(rules[r], PageTypeOf(page_content[url])) = "allow"
          /\ PatternIn(rules[r], page_content[url].text)
          /\ \E h \in 1..Len(page_content[url].headers) :
                PatternIn(rules[r], page_content[url].headers[h])
          /\ url \in DOMAIN images
          /\ \E i \in 1..Len(images[url]) : PatternIn(rules[r], images[url][i].alt)
          /\ \E i \in 1..Len(FindingsOf(url)) :
                FindingsOf(url)[i].location = "page_content"

\* C9  Flag policy, body text: under a rule whose policy for the page's
\* type is flag, each pattern of the rule has exactly as many page_content
\* findings as it has occurrences in the page text, whether or not an
\* exception of the rule matches around them.
C9_FlagPolicy ==
    \A url \in analyzed : \A r \in 1..Len(rules) :
        StatedPolicy(rules[r], PageTypeOf(page_content[url])) = "flag"
        => \A k \in 1..Len(rules[r].patterns) :
              Len(ContentFindings(url, rules[r], rules[r].patterns[k]))
              = Cardinality(Occurrences(rules[r].patterns[k], page_content[url].text))

\* A page analyzed under a flag rule that has context exceptions, with an
\* occurrence of a pattern that has an exception within its window
C9_Witness ==
    \E url \in analyzed : \E r \in 1..Len(rules) :
        /\ StatedPolicy(rules[r], PageTypeOf(page_content[url])) = "flag"
        /\ \E k \in 1..Len(rules[r].patterns) :
              \E s \in Occurrences(rules[r].patterns[k], page_content[url].text) :
                  /\ ExceptionNear(rules[r], page_content[url].text, s,
                                   s + Len(rules[r].patterns[k]))
                  /\ Len(ContentFindings(url, rules[r], rules[r].patterns[k])) >= 1

\* C10  Context suppression, body text: under a rule whose policy for the
\* page's type is neither allow nor flag, each pattern has exactly as many
\* page_content findings as it has occurrences with no exception of the
\* rule inside text[max(0, s-100) : min(len, e+100)]; a rule without
\* context exceptions has one finding per occurrence.
C10_ContextSuppression ==
    \A url \in analyzed : \A r \in 1..Len(rules) :
        StatedPolicy(rules[r], PageTypeOf(page_content[url])) \notin {"allow", "flag"}
        => \A k \in 1..Len(rules[r].patterns) :
              LET pattern == rules[r].patterns[k]
                  text    == page_content[url].text
              IN  Len(ContentFindings(url, rules[r], pattern))
                  = Cardinality({s \in Occurrences(pattern, text) :
                        ~ExceptionNear(rules[r], text, s, s + Len(pattern))})

\* A page analyzed under a context-checking rule with context exceptions:
\* one occurrence of a pattern is suppressed, another is reported although
\* the text holds an exception that ends or starts one character outside
\* that occurrence's window
C10_Witness ==
    \E url \in analyzed : \E r \in 1..Len(rules) :
        LET rule == rules[r]
            text == page_content[url].text
        IN  /\ StatedPolicy(rule, PageTypeOf(page_content[url])) \notin {"allow", "flag"}
            /\ "context_exceptions" \in DOMAIN rule
            /\ \E k \in 1..Len(rule.patterns) :
                  LET pattern == rule.patterns[k] IN
                  /\ Len(ContentFindings(url, rule, pattern)) >= 1
                  /\ \E s \in Occurrences(pattern, text) :
                        ExceptionNear(rule, text, s, s + Len(pattern))
                  /\ \E s \in Occurrences(pattern, text) :
                        /\ ~ExceptionNear(rule, text, s, s + Len(pattern))
                        /\ \E i \in 1..Len(rule.context_exceptions) :
                              \E t \in Occurrences(rule.context_exceptions[i], text) :
                                  \/ t = s - 100 - 1
                                  \/ t + Len(rule.context_exceptions[i])
                                     = s + Len(pattern) + 100 + 1

\* The findings of a rule at a location of a page that report the string
FindingsAbout(url, rule, location, str) ==
    LET Mine(f) == /\ f.location = location
                   /\ f.type = rule.name
                   /\ f.matched_text = str
    IN  SelectSeq(FindingsOf(url), Mine)

HasExceptions(rule) == "context_exceptions" \in DOMAIN rule

SecurityFindings(url, severity, location) ==
    LET Mine(f) == /\ f.location = location
                   /\ f.type = "security_issues"
                   /\ f.category = "technical"
                   /\ f.severity = severity
    IN  SelectSeq(FindingsOf(url), Mine)

FormsOf(url) == IF url \in DOMAIN forms THEN forms[url] ELSE << >>

HttpsPrefix == <<"h", "t", "t", "p", "s", ":", "/", "/">>

\* C13  Transport check: an analyzed page has one security_issues/
\* technical/high finding with location url if its URL begins with
\* http:// and none otherwise; each of its forms has one such finding with
\* location form_N_action if the form's action begins with http:// and
\* none otherwise (an https:// URL or action gets none).
C13_TransportCheck ==
    \A url \in analyzed :
        /\ Len(SecurityFindings(url, "high", "url"))
           = (IF url.scheme = "http" THEN 1 ELSE 0)
        /\ \A n \in 1..Len(FormsOf(url)) :
              Len(SecurityFindings(url, "high", FormLocation(n - 1, "action")))
              = (IF StartsWith(FormsOf(url)[n].action, HttpPrefix) THEN 1 ELSE 0)

\* The analysis is over, an http:// page with a form posting to http://
\* and a form posting to https:// has been analyzed and has its findings,
\* and an https:// page has been analyzed
C13_Witness ==
    /\ apc = "done"
    /\ \E url \in analyzed :
          /\ url.scheme = "http"
          /\ Len(SecurityFindings(url, "high", "url")) = 1
          /\ \E n \in 1..Len(FormsOf(url)) :
                /\ StartsWith(FormsOf(url)[n].action, HttpPrefix)
                /\ Len(SecurityFindings(url, "high",
                                        FormLocation(n - 1, "action"))) = 1
          /\ \E n \in 1..Len(FormsOf(url)) :
                StartsWith(FormsOf(url)[n].action, HttpsPrefix)
    /\ \E url \in analyzed : url.scheme = "https"

\* The health patterns found in the name, id or placeholder of an input
HealthMatches(input_data) ==
    {k \in 1..Len(HealthPatterns) :
        \/ Search(HealthPatterns[k], input_data.name)
        \/ Search(HealthPatterns[k], input_data.id)
        \/ Search(HealthPatterns[k], input_data.placeholder)}

HasHealthInput(form) ==
    \E i \in 1..Len(form.inputs) : HealthMatches(form.inputs[i]) # {}

WordPost == <<"p", "o", "s", "t">>

\* C14  Sensitive-form check: a form of an analyzed page has exactly one
\* security_issues/technical/medium finding with location form_N_method
\* if one of its inputs has a name, id or placeholder matching a health
\* pattern and its method, lower-cased, is not post, and none otherwise;
\* neither the number of matches nor the form's action changes this.
C14_SensitiveForm ==
    \A url \in analyzed : \A n \in 1..Len(FormsOf(url)) :
        Len(SecurityFindings(url, "medium", FormLocation(n - 1, "method")))
        = (IF /\ HasHealthInput(FormsOf(url)[n])
              /\ LowerStr(FormsOf(url)[n].method) # WordPost
           THEN 1 ELSE 0)

\* An analyzed page with a form whose one input matches two health
\* patterns, whose method is not POST and whose action is insecure, with
\* one finding; and a form with a health input and the method Post, with
\* none
C14_Witness ==
    \E url \in analyzed :
        /\ \E n \in 1..Len(FormsOf(url)) :
              LET form == FormsOf(url)[n] IN
              /\ \E i \in 1..Len(form.inputs) :
                    Cardinality(HealthMatches(form.inputs[i])) >= 2
              /\ LowerStr(form.method) # WordPost
              /\ StartsWith(form.action, HttpPrefix)
              /\ Len(SecurityFindings(url, "medium",
                                      FormLocation(n - 1, "method"))) = 1
        /\ \E n \in 1..Len(FormsOf(url)) :
              LET form == FormsOf(url)[n] IN
              /\ HasHealthInput(form)
              /\ form.method # WordPost
              /\ LowerStr(form.method) = WordPost
              /\ Len(SecurityFindings(url, "medium",
                                      FormLocation(n - 1, "method"))) = 0

\* The site-wide findings of a type, category and severity
SiteWideFindings(type, category, severity) ==
    LET Mine(f) == /\ f.location = "site_wide"
                   /\ f.type = type
                   /\ f.category = category
                   /\ f.severity = severity
    IN  SelectSeq(FindingsOf(SiteWide), Mine)

\* A URL or a text of the corpus matches one of the patterns
Indicated(patterns) ==
    \E u \in DOMAIN page_content : \E i \in 1..Len(patterns) :
        \/ Search(patterns[i], UrlString(u))
        \/ Search(patterns[i], page_content[u].text)

\* C15  Missing-page detection: when the analysis is over there is exactly
\* one missing_privacy_policy/hipaa/high finding under site_wide if no
\* URL and no text of the corpus matches a privacy pattern and none
\* otherwise, and exactly one missing_terms/legal/medium finding if no URL
\* and no text matches a terms pattern and none otherwise.
C15_MissingPages ==
    apc = "done"
    => /\ Len(SiteWideFindings("missing_privacy_policy", "hipaa", "high"))
          = (IF Indicated(PrivacyPatterns) THEN 0 ELSE 1)
       /\ Len(SiteWideFindings("missing_terms", "legal", "medium"))
          = (IF Indicated(TermsPatterns) THEN 0 ELSE 1)

\* The analysis is over on a corpus where a page text, and no URL, matches
\* a privacy pattern and nothing matches a terms pattern: missing_terms
\* was emitted, missing_privacy_policy was not
C15_Witness ==
    /\ apc = "done"
    /\ \E u \in DOMAIN page_content : TextMentions(page_content[u].text, PrivacyPatterns)
    /\ \A u \in DOMAIN page_content : ~TextMentions(UrlString(u), PrivacyPatterns)
    /\ ~Indicated(TermsPatterns)
    /\ Len(SiteWideFindings("missing_terms", "legal", "medium")) = 1
    /\ Len(SiteWideFindings("missing_privacy_policy", "hipaa", "high")) = 0

\* The analysis is over on a corpus where only a URL matches a terms
\* pattern and nothing matches a privacy pattern
C15_WitnessUrl ==
    /\ apc = "done"
    /\ \E u \in DOMAIN page_content : Search(WordTerms, UrlString(u))
    /\ \A u \in DOMAIN page_content : ~TextMentions(page_content[u].text, TermsPatterns)
    /\ ~Indicated(PrivacyPatterns)
    /\ Len(SiteWideFindings("missing_privacy_policy", "hipaa", "high")) = 1

(***************************************************************************)
(* Properties of the score calculator.  Scores are in half points: 26 is   *)
(* 13 points, 200 is 100 points.                                           *)
(***************************************************************************)
\* The findings of the mapping, each as <<key, index>>
Entries ==
    UNION {{<<k, i>> : i \in 1..Len(findings[k])} : k \in DOMAIN findings}

EntryAt(e) == findings[e[1]][e[2]]

\* The number of findings of a category and a severity
Tally(category, severity) ==
    Cardinality({e \in Entries :
        /\ "category" \in DOMAIN EntryAt(e)
        /\ "severity" \in DOMAIN EntryAt(e)
        /\ EntryAt(e).category = category
        /\ EntryAt(e).severity = severity})

\* Caps 25/25/20/15/15 and weights (5,2,0.5), (5,2,0.5), (4,1.5,0.5),
\* (3,1.5,0.5), (3,1.5,0.5), in half points
StatedScoring ==
    [hipaa       |-> <<50, 10, 4, 1>>,
     fda         |-> <<50, 10, 4, 1>>,
     legitscript |-> <<40, 8, 3, 1>>,
     ftc         |-> <<30, 6, 3, 1>>,
     technical   |-> <<30, 6, 3, 1>>]

StatedScore(c) ==
    LET cap == StatedScoring[c][1]
        sum == Tally(c, "high") * StatedScoring[c][2]
               + Tally(c, "medium") * StatedScoring[c][3]
               + Tally(c, "low") * StatedScoring[c][4]
    IN  Max(0, cap - Min(cap, sum))

\* C16  Score formula: after _calculate_scores each category score is
\* max(0, cap - min(cap, high*w_high + medium*w_medium + low*w_low)) with
\* the stated caps and weights; two hipaa/high and one hipaa/medium give
\* hipaa = 13, and no findings give total = 100.
C16_ScoreFormula ==
    apc = "done"
    => /\ \A c \in DOMAIN StatedScoring : scores[c] = StatedScore(c)
       /\ (/\ Tally("hipaa", "high") = 2
           /\ Tally("hipaa", "medium") = 1
           /\ Tally("hipaa", "low") = 0) => scores.hipaa = 26
       /\ Entries = {} => scores.total = 200

\* Scores computed from two hipaa/high, one hipaa/medium, one fda/high, one
\* ftc/medium and one legitscript/low: 13, 20, 13.5 and 19.5 points
C16_Witness ==
    /\ apc = "done"
    /\ Tally("hipaa", "high") = 2 /\ Tally("hipaa", "medium") = 1
    /\ Tally("ftc", "medium") = 1 /\ Tally("legitscript", "low") = 1
    /\ scores.hipaa = 26 /\ scores.fda = 40
    /\ scores.ftc = 27 /\ scores.legitscript = 39

\* C17  Score bounds: after _calculate_scores, 0 <= hipaa <= 25,
\* 0 <= fda <= 25, 0 <= legitscript <= 20, 0 <= ftc <= 15,
\* 0 <= technical <= 15, total is the sum of the five and 0 <= total <= 100.
C17_ScoreBounds ==
    apc = "done"
    => /\ scores.hipaa \in 0..50
       /\ scores.fda \in 0..50
       /\ scores.legitscript \in 0..40
       /\ scores.ftc \in 0..30
       /\ scores.technical \in 0..30
       /\ scores.total = scores.hipaa + scores.fda + scores.legitscript
                         + scores.ftc + scores.technical
       /\ scores.total \in 0..200

\* Scores computed from findings whose deductions in one category exceed
\* its cap: that score is 0
C17_Witness ==
    /\ apc = "done"
    /\ \E c \in DOMAIN StatedScoring :
          /\ Tally(c, "high") * StatedScoring[c][2]
             + Tally(c, "medium") * StatedScoring[c][3] > StatedScoring[c][1]
          /\ scores[c] = 0
    /\ scores.total > 0

\* The finding has a category and a severity the calculator counts
Scored(f) ==
    /\ f.category \in {"hipaa", "fda", "legitscript", "ftc", "technical"}
    /\ f.severity \in {"high", "medium", "low"}

ScoredOnly(fd) == [k \in DOMAIN fd |-> SelectSeq(fd[k], Scored)]

\* C18  Unscored findings: the scores _calculate_scores computes are those
\* of the findings without the ones whose category is not one of the five
\* or whose severity is not high, medium or low, and the step leaves the
\* findings, these included, as they were.
C18_UnscoredFindings ==
    [][apc' = "done" => /\ scores' = CalculateScores(ScoredOnly(findings))
                        /\ findings' = findings]_vars

\* Scores computed from findings that hold a legal/medium finding, a
\* technical finding of unknown severity and an fda/low finding: the
\* first two are still in the findings, fda lost half a point and
\* technical nothing
C18_Witness ==
    /\ apc = "done"
    /\ \E e \in Entries : EntryAt(e).category = "legal"
    /\ \E e \in Entries :
          EntryAt(e).category = "technical" /\ EntryAt(e).severity = "info"
    /\ Tally("technical", "high") + Tally("technical", "medium")
       + Tally("technical", "low") = 0
    /\ Tally("fda", "low") = 1 /\ Tally("fda", "high") = 0
    /\ Tally("fda", "medium") = 0
    /\ scores.technical = 30
    /\ scores.fda = 49

UrlMatches(url, segs) ==
    \E seg \in segs : Search(<<"/">> \o Chars(seg) \o <<"/">>, UrlString(url))

\* C20  Classification order: a URL matching a blog path pattern is blog,
\* also when it matches a product path pattern; else a URL matching a
\* product path pattern is product whatever the content; else the page is
\* blog iff blog_score > product_score and blog_score >= 2, product iff
\* product_score > blog_score and product_score >= 2, and other in every
\* remaining case.
C20_ClassificationOrder ==
    pc = "detected"
    => LET url   == start_url
           blog_score    == Cardinality(site[url.path].blog_hits)
           product_score == Cardinality(site[url.path].product_hits)
           byBlog    == blog_score > product_score /\ blog_score >= 2
           byProduct == product_score > blog_score /\ product_score >= 2
       IN  IF UrlMatches(url, BlogSegments) THEN page_types[url] = "blog"
           ELSE IF UrlMatches(url, ProductSegments)
           THEN page_types[url] = "product"
           ELSE /\ page_types[url] = "blog" <=> byBlog
                /\ page_types[url] = "product" <=> byProduct
                /\ page_types[url] = "other" <=> (~byBlog /\ ~byProduct)

\* A page whose URL matches a blog and a product path pattern and whose
\* content has three product indicators and no blog indicator was
\* classified blog
C20_Witness ==
    /\ pc = "detected"
    /\ UrlMatches(start_url, BlogSegments)
    /\ UrlMatches(start_url, ProductSegments)
    /\ Cardinality(site[start_url.path].product_hits) = 3
    /\ site[start_url.path].blog_hits = {}
    /\ page_types[start_url] = "blog"

\* A page whose URL matches no path pattern and whose content has three
\* blog and three product indicators was classified other
C20_WitnessTie ==
    /\ pc = "detected"
    /\ ~UrlMatches(start_url, BlogSegments)
    /\ ~UrlMatches(start_url, ProductSegments)
    /\ Cardinality(site[start_url.path].product_hits) = 3
    /\ Cardinality(site[start_url.path].blog_hits) = 3
    /\ page_types[start_url] = "other"

(***************************************************************************)
(* Properties of the URL normalisation                                     *)
(***************************************************************************)
\* The href _normalize_url was called with
NormalizedHref == site[start_url.path].links[1]

\* The URL an absolute href spells, its #part left out
Spelled(href) == KeepQuery(href, Url(href.scheme, href.host, href.path))

\* C21  URL normalization: for every base URL and href, _normalize_url
\* returns a URL with no fragment; an href that starts with a
\* single / gives the scheme and host of the base and the path of the
\* href; an href that starts with // gives its own host and path under
\* the scheme of the base; an href that is only a fragment gives the base
\* URL; an absolute http(s) href without fragment is returned unchanged.
C21_Normalization ==
    pc = "normalized"
    => LET href == NormalizedHref
           base == start_url
       IN  /\ ~HasFragment(absolute_url)
           /\ href.kind = "root"
              => /\ absolute_url.scheme = base.scheme
                 /\ absolute_url.host = base.host
                 /\ absolute_url.path = href.path
           /\ href.kind = "proto"
              => /\ absolute_url.scheme = base.scheme
                 /\ absolute_url.host = href.host
                 /\ absolute_url.path = href.path
           /\ href = HrefFragOnly => absolute_url = base
           /\ (href.kind = "abs" /\ ~href.frag) => absolute_url = Spelled(href)

(***************************************************************************)
(* Properties of the progress reporting                                    *)
(***************************************************************************)
\* The URLs fetched with status 200, and those of them whose page record
\* could be built
Fetched200 == {fetchLog[i].url : i \in {j \in 1..Len(fetchLog) : fetchLog[j].status = 200}}

Recorded == {u \in Fetched200 : site[u.path].meta # "nocontent"}

\* The corpus the fetched pages determine
ExpectedCorpus ==
    LET page(u)  == site[u.path]
        ptype(u) == DetectPageType(u, page(u))
        pdfsOf(u) == ExtractPdfs(page(u).links, u)
    IN  [pages      |-> [u \in Recorded |-> PageRecord(page(u), ptype(u))],
         forms      |-> [u \in {v \in Recorded : page(v).forms # << >>} |->
                            page(u).forms],
         images     |-> [u \in {v \in Recorded : page(v).images # << >>} |->
                            page(u).images],
         pdfs       |-> [u \in {v \in Recorded : /\ ~IsRaised(pdfsOf(v))
                                                   /\ pdfsOf(v).value # << >>} |->
                            pdfsOf(u).value],
         page_types |-> [u \in Fetched200 |-> ptype(u)]]

\* The findings the corpus determines
ExpectedFindings ==
    LET flagged == {u \in DOMAIN page_content : PageFindings(u) # << >>}
        perPage == [u \in flagged |-> PageFindings(u)]
    IN  AppendFindings(perPage, SiteWide, CheckRequiredPages)

FractionInUnitInterval(fraction) ==
    /\ fraction[2] > 0
    /\ 0 <= fraction[1]
    /\ fraction[1] <= fraction[2]

C22_WitnessNoCallback ==
    /\ ~progress_callback
    /\ apc = "done"
    /\ Cardinality(DOMAIN page_content) = 2
    /\ \E u \in DOMAIN page_content : u \in DOMAIN findings

(***************************************************************************)
(* Properties of the seed handling                                         *)
(***************************************************************************)
\* C23  Invalid seed: when the seed URL is still unparsable after the
\* https:// prefix has been applied, constructing the crawler and calling
\* crawl() raise no error, and crawl() returns an empty corpus (no pages,
\* forms, images, pdfs or page types).
C23_InvalidSeed ==
    Unparsable(start_url)
    => /\ pc # "raised"
       /\ pc = "done"
          => /\ page_content = EmptyDict
             /\ forms = EmptyDict
             /\ images = EmptyDict
             /\ pdfs = EmptyDict
             /\ page_types = EmptyDict

(***************************************************************************)
(* Properties of the corpus                                                *)
(***************************************************************************)
\* C24  Parse tolerance: every page fetched with status 200 is recorded in
\* the corpus and marked visited, a missing meta description or a meta
\* description without content attribute being recorded as the empty
\* string; a missing or malformed field never causes the page to be
\* dropped.
C24_ParseTolerance ==
    \A i \in 1..Len(fetchLog) :
        fetchLog[i].status = 200
        => LET url == fetchLog[i].url
           IN  /\ url \in visited_urls
               /\ url \in DOMAIN page_content
               /\ site[url.path].meta # "ok"
                  => page_content[url].meta_description = << >>

\* C25  Frontier holds only unfetched URLs: in every reachable state of
\* crawl(), no URL in the queue is in the visited set, also when a page
\* links to itself.
C25_FrontierUnfetched ==
    \A i \in 1..Len(queue) : queue[i] \notin visited_urls

\* C27  Corpus consistency: in the corpus returned by crawl(), for every
\* mix of fetch and extraction outcomes, the key set of pages equals the
\* visited set and the key set of page_types, the key sets of forms,
\* images and pdfs are subsets of the key set of pages, and page_types[u]
\* equals pages[u].page_type for every page u.
C27_CorpusConsistency ==
    pc = "done"
    => /\ DOMAIN page_content = visited_urls
       /\ DOMAIN page_content = DOMAIN page_types
       /\ DOMAIN forms \subseteq DOMAIN page_content
       /\ DOMAIN images \subseteq DOMAIN page_content
       /\ DOMAIN pdfs \subseteq DOMAIN page_content
       /\ \A u \in DOMAIN page_content :
             u \in DOMAIN page_types /\ page_types[u] = page_content[u].page_type

\* C28  The crawl queue never contains the same URL twice: in every
\* reachable state of crawl(), the entries of the queue are pairwise
\* distinct, also when one page lists the same link several times.
C28_QueueDistinct ==
    \A i, j \in 1..Len(queue) : i # j => queue[i] # queue[j]

\* A page that lists /x twice (once with a fragment) was fetched with
\* /x not yet visited, and /x is in the queue
C28_Witness ==
    /\ \E i \in 1..Len(fetchLog) :
          /\ fetchLog[i].outcome = "ok"
          /\ site[fetchLog[i].url.path] = PageNavRev
    /\ \E i \in 1..Len(queue) : queue[i].path = <<"x">>
    /\ Len(queue) = 2

(***************************************************************************)
(* Properties of the title scan                                            *)
(***************************************************************************)
\* C26  The body-text check also scans the page title: for a rule whose
\* policy for the page's type is not allow, an analyzed page whose title
\* matches a pattern of the rule while its text matches none has a finding
\* of that rule.
C26_TitleScan ==
    \A url \in analyzed : \A r \in 1..Len(rules) :
        (/\ StatedPolicy(rules[r], PageTypeOf(page_content[url])) # "allow"
         /\ PatternIn(rules[r], page_content[url].title)
         /\ ~PatternIn(rules[r], page_content[url].text))
        => \E i \in 1..Len(FindingsOf(url)) :
              /\ FindingsOf(url)[i].location \in RuleScanLocations
              /\ FindingsOf(url)[i].type = rules[r].name

(***************************************************************************)
(* Properties of a repeated analysis                                       *)
(***************************************************************************)
\* C29  Repeating analysis is idempotent: the second call of
\* analyze_pages() on a ComplianceAnalyzer returns the findings and the
\* scores the first call returned, and no step of either call changes the
\* corpus (pages, forms, images, pdfs, page_types).
C29_Idempotent ==
    /\ [](Len(results) = 2 => results[2] = results[1])
    /\ [][UNCHANGED <<page_content, forms, images, pdfs, page_types>>]_vars

====
